---- MODULE Spec2Model ----
(***************************************************************************)
(* Model of the cluster-api HTTP gateway (modules/cluster-api/internal/app *)
(* app.go): the construction of the gin engine by NewApp (middleware and   *)
(* route registration order), the handling of one request by the handler   *)
(* chain gin built for the matched route, and App.Shutdown.                *)
(*                                                                         *)
(* Strings that the code compares or joins (base path, request path) are   *)
(* sequences of one-character strings, so that path.Join and gin's         *)
(* joinPaths are computed, not assumed.                                    *)
(*                                                                         *)
(* A request is served in one step (Serve) or, where requests are handled  *)
(* side by side, one handler at a time by a worker (StepStage). The CSRF   *)
(* tokens of gorilla/csrf are bit sequences that are really masked and     *)
(* unmasked.                                                               *)
(***************************************************************************)
EXTENDS Integers, Sequences, FiniteSets, TLC

VARIABLES
    cfg,        \* the *config.Config handed to NewApp (NilCfg before the call)
    ret,        \* what NewApp returned: [app, err]; returned = FALSE before
                \* the call and when mustNewGrpcDispatcher panicked
    built,      \* subsystems constructed by NewApp so far
    collab,     \* what the collaborators NewApp called answered
    attached,   \* number of handlers attached through app.dynamicRoutes
    last,       \* outcome of the most recent request served by the engine
    pc,         \* per Shutdown call: position inside App.Shutdown
    sdLog,      \* per Shutdown call: releases it performed, in order
    sdCtx,      \* per Shutdown call: the context passed to App.Shutdown
    dispOut,    \* per Shutdown call: what grpcDispatcher.Shutdown() returned
    cmOut,      \* per Shutdown call: what cm.Shutdown(ctx) returned
    sdRet,      \* per Shutdown call: the error App.Shutdown returned
    releases,   \* per subsystem: how many times its release was invoked
    cmCtx,      \* contexts the connection manager's Shutdown received
    lifecycle,  \* Uninitialized / Running / ShuttingDown / Stopped / Failed
    sdEntries,  \* how many times the ShuttingDown state was entered
    issued,     \* a client's view: the cookie and token it got from the
                \* most recent GET /csrf-token
    inflight    \* per worker: the request it is handling, the context of
                \* that request and the handlers still to run

vars == <<cfg, ret, built, collab, attached, last, pc, sdLog, sdCtx, dispOut,
          cmOut, sdRet, releases, cmCtx, lifecycle, sdEntries, issued,
          inflight>>

Nil == "nil"

\* ------------------------------------------------------------------------
\* Bounds
\* ------------------------------------------------------------------------
MaxShutdownCalls == 2
MaxAttached == 1
\* length of a CSRF token (tokenLength in gorilla/csrf)
TokenLength == 1
\* requests the engine handles at the same time
MaxWorkers == 2

Calls == 1..MaxShutdownCalls
Workers == 1..MaxWorkers

\* ------------------------------------------------------------------------
\* Strings
\* ------------------------------------------------------------------------
Slash == "/"
sGraphql == <<"/", "g", "r", "a", "p", "h", "q", "l">>
sCsrfToken == <<"/", "c", "s", "r", "f", "-", "t", "o", "k", "e", "n">>
sHealthz == <<"/", "h", "e", "a", "l", "t", "h", "z">>
sGraphiql == <<"/", "g", "r", "a", "p", "h", "i", "q", "l">>
sFaviconIco == <<"/", "f", "a", "v", "i", "c", "o", "n", ".", "i", "c", "o">>
sFaviconSvg == <<"/", "f", "a", "v", "i", "c", "o", "n", ".", "s", "v", "g">>
sRoot == <<"/">>

\* cfg.ClusterAPI.BasePath values: empty, "/", "/a", "/a/", "//a", "a"
BasePaths ==
    { <<>>, <<"/">>, <<"/", "a">>, <<"/", "a", "/">>,
      <<"/", "/", "a">>, <<"a">> }

\* relative paths under which a test attaches a mock handler
MockPaths == << <<"/", "m">>, <<"/", "n">>, <<"/", "o">> >>

\* F applied to the value of x: x is evaluated once and F sees the value
Strict(F(_), x) == CHOOSE y \in {F(v) : v \in {x}} : TRUE

\* first index e >= r with e > Len(p) or p[e] = "/"
RECURSIVE SegEnd(_, _)
SegEnd(p, r) ==
    IF r > Len(p) \/ p[r] = Slash THEN r ELSE SegEnd(p, r + 1)

\* path.Clean's ".." step when out.w > dotdot: drop the last element of out
RECURSIVE Backtrack(_, _, _)
Backtrack(out, w, dotdot) ==
    IF w > dotdot /\ out[w + 1] # Slash
    THEN Backtrack(out, w - 1, dotdot)
    ELSE SubSeq(out, 1, w)

\* the loop of path.Clean on the rooted or unrooted path p: a.r is the next
\* index to read (1-based), a.out the buffer written so far, a.dotdot the
\* index where ".." must stop
RECURSIVE CleanLoop(_, _)
CleanLoop(p, state) ==
    LET n == Len(p)
        rooted == p[1] = Slash
        Step(a) ==
            IF a.r > n THEN a.out
            ELSE IF p[a.r] = Slash
                 THEN CleanLoop(p, [a EXCEPT !.r = @ + 1])
            ELSE IF p[a.r] = "." /\ (a.r = n \/ p[a.r + 1] = Slash)
                 THEN CleanLoop(p, [a EXCEPT !.r = @ + 1])
            ELSE IF p[a.r] = "." /\ p[a.r + 1] = "."
                    /\ (a.r + 1 = n \/ p[a.r + 2] = Slash)
                 THEN IF Len(a.out) > a.dotdot
                      THEN CleanLoop(p, [a EXCEPT !.r = @ + 2,
                               !.out = Backtrack(@, Len(@) - 1, a.dotdot)])
                      ELSE IF ~rooted
                      THEN CleanLoop(p, [a EXCEPT !.r = @ + 2,
                               !.out = (IF Len(@) > 0 THEN Append(@, Slash)
                                        ELSE @) \o <<".", ".">>,
                               !.dotdot = (IF Len(a.out) > 0
                                           THEN Len(a.out) + 3 ELSE 2)])
                      ELSE CleanLoop(p, [a EXCEPT !.r = @ + 2])
            ELSE CleanLoop(p, [a EXCEPT !.r = SegEnd(p, @),
                      !.out = (IF (rooted /\ Len(@) # 1) \/ (~rooted /\ Len(@) # 0)
                               THEN Append(@, Slash) ELSE @)
                              \o SubSeq(p, a.r, SegEnd(p, a.r) - 1)])
    IN  Strict(Step, state)

\* path.Clean
Clean(path) ==
    LET NonEmpty(out) == IF out = <<>> THEN <<".">> ELSE out
        Cleaned(p) ==
            IF p = <<>> THEN <<".">>
            ELSE Strict(NonEmpty,
                        CleanLoop(p, IF p[1] = Slash
                                     THEN [r |-> 2, out |-> <<Slash>>,
                                           dotdot |-> 1]
                                     ELSE [r |-> 1, out |-> <<>>,
                                           dotdot |-> 0]))
    IN  Strict(Cleaned, path)

\* path.Join(a, b): the non-empty elements joined by "/", then cleaned
Join(a, b) ==
    LET Joined(e) ==
            IF Len(e[1]) + Len(e[2]) = 0 THEN <<>>
            ELSE Clean(IF e[1] = <<>> THEN e[2]
                       ELSE IF e[2] = <<>> THEN e[1]
                       ELSE e[1] \o <<Slash>> \o e[2])
    IN  Strict(Joined, <<a, b>>)

\* gin's joinPaths(absolutePath, relativePath), used by RouterGroup
joinPaths(abs, rel) ==
    LET Fix(e) ==
            LET finalPath == e[3]
            IN  IF e[2][Len(e[2])] = Slash /\ finalPath[Len(finalPath)] # Slash
                THEN Append(finalPath, Slash)
                ELSE finalPath
        Joined(e) ==
            IF e[2] = <<>> THEN e[1]
            ELSE Strict(Fix, <<e[1], e[2], Join(e[1], e[2])>>)
    IN  Strict(Joined, <<abs, rel>>)

\* ------------------------------------------------------------------------
\* Configuration (config.Config, the fields NewApp reads) and gin.Mode()
\* ------------------------------------------------------------------------
LiveMode == "release"
TestMode == "test"

Configs ==
    [ mode : {LiveMode, TestMode},
      accessLog : BOOLEAN,
      csrfEnabled : BOOLEAN,
      basePath : BasePaths ]

NilCfg == [mode |-> Nil, accessLog |-> FALSE, csrfEnabled |-> FALSE,
           basePath |-> <<>>]

\* ------------------------------------------------------------------------
\* NewApp: middleware and routes, in the order the code registers them.
\* A gin RouterGroup copies its parent's Handlers when it is created, and
\* a route copies its group's Handlers when it is registered.
\* ------------------------------------------------------------------------
AnyMethods == {"GET", "POST", "PUT", "PATCH", "HEAD", "OPTIONS", "DELETE",
               "CONNECT", "TRACE"}

Route(methods, path, chain, handler, group) ==
    [methods |-> methods, path |-> path, chain |-> Append(chain, handler),
     handler |-> handler, group |-> group]

\* variant: the mode is not consulted, subsystems are always constructed
NotTestMode_always(c) == TRUE

\* gin.Mode() != gin.TestMode
NotTestMode(c) == c.mode # TestMode

\* variant: gin.Recovery() is installed after the other engine-wide stages
EngineHandlers_recoveryLast(c) ==
    <<"requestid">>
    \o (IF c.accessLog THEN <<"logging">> ELSE <<>>)
    \o <<"gzip">>
    \o (IF NotTestMode(c) THEN <<"recovery">> ELSE <<>>)

\* engine.Handlers after the app.Use calls
EngineHandlers(c) ==
    (IF NotTestMode(c) THEN <<"recovery">> ELSE <<>>)
    \o <<"requestid">>
    \o (IF c.accessLog THEN <<"logging">> ELSE <<>>)
    \o <<"gzip">>

\* root := app.Group(cfg.ClusterAPI.BasePath)
RootGroup(c) ==
    [basePath |-> joinPaths(<<Slash>>, c.basePath),
     Handlers |-> EngineHandlers(c)]

\* variant: the CSRF gate is installed before the exemption check
DynamicGroupAtCsrfToken_gateFirst(c) ==
    LET Sub(root) ==
            [basePath |-> joinPaths(root.basePath, <<Slash>>),
             Handlers |-> root.Handlers \o <<"secure">>
                          \o (IF c.csrfEnabled THEN <<"csrf">> ELSE <<>>)
                          \o <<"csrfExempt">>]
    IN  Strict(Sub, RootGroup(c))

\* dynamicRoutes when GET /csrf-token is registered: root.Group("/") after
\* Use(secure), Use(exemption check) and Use(csrf gate)
DynamicGroupAtCsrfToken(c) ==
    LET Sub(root) ==
            [basePath |-> joinPaths(root.basePath, <<Slash>>),
             Handlers |-> root.Handlers \o <<"secure", "csrfExempt">>
                          \o (IF c.csrfEnabled THEN <<"csrf">> ELSE <<>>)]
    IN  Strict(Sub, RootGroup(c))

\* variant: authenticationMiddleware is not installed on the group
DynamicGroup_noAuth(c) == DynamicGroupAtCsrfToken(c)

\* dynamicRoutes after Use(authenticationMiddleware): the group that
\* /graphql is registered on and that app.dynamicRoutes retains
DynamicGroup(c) ==
    LET Use(g) == [g EXCEPT !.Handlers = Append(@, "auth")]
    IN  Strict(Use, DynamicGroupAtCsrfToken(c))

\* variant: GET /csrf-token is registered whether or not CSRF is enabled
DynamicRouteTable_tokenRouteAlways(c) ==
    LET CsrfTokenRoute(g) ==
            << Route({"GET"}, joinPaths(g.basePath, sCsrfToken),
                     g.Handlers, "csrfToken", "dynamic") >>
        GraphqlRoute(g) ==
            << Route(AnyMethods, joinPaths(g.basePath, sGraphql),
                     g.Handlers, "graphql", "dynamic") >>
    IN  Strict(CsrfTokenRoute, DynamicGroupAtCsrfToken(c))
        \o Strict(GraphqlRoute, DynamicGroup(c))

\* routes registered on dynamicRoutes, each with the group's Handlers at
\* the time of its registration
DynamicRouteTable(c) ==
    LET CsrfTokenRoute(g) ==
            IF c.csrfEnabled
            THEN << Route({"GET"}, joinPaths(g.basePath, sCsrfToken),
                          g.Handlers, "csrfToken", "dynamic") >>
            ELSE <<>>
        GraphqlRoute(g) ==
            << Route(AnyMethods, joinPaths(g.basePath, sGraphql),
                     g.Handlers, "graphql", "dynamic") >>
    IN  Strict(CsrfTokenRoute, DynamicGroupAtCsrfToken(c))
        \o Strict(GraphqlRoute, DynamicGroup(c))

GroupRoute(g, methods, rel, handler) ==
    Route(methods, joinPaths(g.basePath, rel), g.Handlers, handler, "root")

\* variant: the two routes are registered on the dynamic group
RootRouteTable_onDynamic(c) ==
    LET Table(root) ==
            [i \in 1..2 |->
                GroupRoute(root, {"GET"}, <<sRoot, sHealthz>>[i],
                           <<"root", "healthz">>[i])]
    IN  Strict(Table, DynamicGroup(c))

\* root.GET("/", ...) and root.GET("/healthz", ...)
RootRouteTable(c) ==
    LET Table(root) ==
            [i \in 1..2 |->
                GroupRoute(root, {"GET"}, <<sRoot, sHealthz>>[i],
                           <<"root", "healthz">>[i])]
    IN  Strict(Table, RootGroup(c))

\* variant: the static files are served from the dynamic group
StaticRouteTable_onDynamic(c) ==
    LET Table(root) ==
            [i \in 1..3 |->
                GroupRoute(root, {"GET", "HEAD"},
                           <<sGraphiql, sFaviconIco, sFaviconSvg>>[i],
                           <<"graphiql", "faviconIco", "faviconSvg">>[i])]
    IN  Strict(Table, DynamicGroup(c))

\* root.StaticFileFS for /graphiql, /favicon.ico and /favicon.svg
StaticRouteTable(c) ==
    LET Table(root) ==
            [i \in 1..3 |->
                GroupRoute(root, {"GET", "HEAD"},
                           <<sGraphiql, sFaviconIco, sFaviconSvg>>[i],
                           <<"graphiql", "faviconIco", "faviconSvg">>[i])]
    IN  Strict(Table, RootGroup(c))

NilGroup == [basePath |-> <<>>, Handlers |-> <<>>]

NilApp ==
    [null |-> TRUE, cm |-> Nil, grpcDispatcher |-> Nil, graphqlServer |-> Nil,
     gqlArgs |-> [cm |-> Nil, dispatcher |-> Nil, csrfProtect |-> Nil],
     Handlers |-> <<>>, dynamicRoutes |-> NilGroup, routes |-> <<>>]

Returned(app, err) == [app |-> app, err |-> err, returned |-> TRUE]

\* `return nil, err` after NewConnectionManager failed
ReturnCmErr(app) == Returned(NilApp, "cmErr")

\* variant: the half-built app is returned together with the error
ReturnFsErr_partial(app) == Returned(app, "fsErr")

\* `return nil, err` after fs.Sub failed
ReturnFsErr(app) == Returned(NilApp, "fsErr")

\* `return app, nil`
ReturnApp(app) == Returned(app, Nil)

NoCollab == [cm |-> "none", dispatcher |-> "none", fs |-> "none"]

\* NewApp(cfg), given what the collaborators it calls answer:
\* cmAns   k8shelpers.NewConnectionManager: "ok" or "err"
\* dAns    mustNewGrpcDispatcher: "ok" or "panic"
\* fsAns   fs.Sub(StaticEmbedFS, "static"): "ok" or "err"
\* The result holds what NewApp returned, the subsystems it constructed
\* and the answers it received from the collaborators it did call.
NewAppResult(c, cmAns, dAns, fsAns) ==
    LET app0 == [NilApp EXCEPT !.null = FALSE]     \* &App{Engine: gin.New()}
        Construct(live) ==
            IF live /\ cmAns = "err"
            THEN [ret |-> ReturnCmErr(app0), built |-> {},
                  collab |-> [NoCollab EXCEPT !.cm = "err"]]
            ELSE IF live /\ dAns = "panic"
            THEN [ret |-> [app |-> NilApp, err |-> Nil, returned |-> FALSE],
                  built |-> {"cm"},
                  collab |-> [NoCollab EXCEPT !.cm = "ok",
                                              !.dispatcher = "panic"]]
            ELSE
            LET cm == IF live THEN "cm" ELSE Nil
                disp == IF live THEN "grpcDispatcher" ELSE Nil
                csrfProtect == IF c.csrfEnabled THEN "csrfProtect" ELSE Nil
                subsystems == (IF live THEN {"cm", "grpcDispatcher"} ELSE {})
                              \cup {"graphqlServer"}
                answers == [cm |-> IF live THEN "ok" ELSE "none",
                            dispatcher |-> IF live THEN "ok" ELSE "none",
                            fs |-> fsAns]
                Finish(app) ==
                    IF fsAns = "err"
                    THEN [ret |-> ReturnFsErr(app), built |-> subsystems,
                          collab |-> answers]
                    ELSE [ret |-> ReturnApp([app EXCEPT !.routes =
                                                 @ \o StaticRouteTable(c)]),
                          built |-> subsystems, collab |-> answers]
            IN  Strict(Finish,
                       [app0 EXCEPT
                        !.cm = cm,
                        !.grpcDispatcher = disp,
                        !.graphqlServer = "graphqlServer",
                        !.gqlArgs = [cm |-> cm, dispatcher |-> disp,
                                     csrfProtect |-> csrfProtect],
                        !.Handlers = EngineHandlers(c),
                        !.dynamicRoutes = DynamicGroup(c),
                        !.routes = DynamicRouteTable(c) \o RootRouteTable(c)])
    IN  Strict(Construct, NotTestMode(c))

\* ------------------------------------------------------------------------
\* Serving one request: gin picks the route by method and exact path and
\* runs the handler chain recorded for it; c.Abort stops the chain.
\* ------------------------------------------------------------------------
Methods == {"GET", "POST"}
SafeMethods == {"GET", "HEAD", "OPTIONS", "TRACE"}

\* request paths tried against a gateway configured with base path bp
ReqPaths(bp) ==
    LET Under(dyn) ==
            LET Around(gql) ==
                    { gql,                      \* the /graphql route
                      Append(gql, Slash),       \* trailing slash
                      Append(gql, "x") }        \* sibling path
            IN  Strict(Around, joinPaths(dyn, sGraphql))
                \cup { dyn \o sGraphql }        \* doubled slash
                \cup { joinPaths(dyn, rel) :
                          rel \in {sCsrfToken, sHealthz, MockPaths[1]} }
    IN  Strict(Under, joinPaths(joinPaths(<<Slash>>, bp), <<Slash>>))
        \cup { bp \o sGraphql }                 \* basePath + "/graphql"
        \cup { Join(bp, sGraphql) }             \* what the exemption compares

Requests(bp) ==
    [ method : Methods,
      path : ReqPaths(bp),
      authenticated : BOOLEAN,     \* what the session verifier answers
      csrfTokenValid : BOOLEAN ]   \* carries a cookie and a matching token

\* requests for the routes mounted on the root group
RootReqPaths(bp) ==
    LET Under(dyn) ==
            { dyn }                             \* the root route
            \cup { joinPaths(dyn, rel) :
                      rel \in {sHealthz, sGraphiql, sFaviconIco, sFaviconSvg} }
    IN  Strict(Under, joinPaths(joinPaths(<<Slash>>, bp), <<Slash>>))

RootRequests(bp) ==
    [ method : {"GET", "HEAD", "POST"},
      path : RootReqPaths(bp),
      authenticated : BOOLEAN,
      csrfTokenValid : BOOLEAN ]

NoRequest == [method |-> Nil, path |-> <<>>, authenticated |-> FALSE,
              csrfTokenValid |-> FALSE]

\* per-request state (gin.Context and the response)
\* headers: the header map of the response writer; sent: the headers that
\* went out with the status line (status is 0 until the response is written)
NewContext(req) ==
    [req |-> req, route |-> Nil, group |-> Nil, trace |-> <<>>,
     aborted |-> FALSE, abortedBy |-> Nil, status |-> 0,
     skipCheck |-> FALSE, csrf |-> Nil, secureHeaders |-> FALSE,
     handlerRan |-> Nil, headers |-> {}, sent |-> {}, body |-> Nil]

NoContext == NewContext(NoRequest)

\* a stage answers itself and stops the chain: the status line goes out
\* with the headers set so far
Abort(ctx, stage, code) ==
    [ctx EXCEPT !.aborted = TRUE, !.abortedBy = stage, !.status = code,
                !.sent = ctx.headers]

\* the secure.Config literal handed to secure.New
SecureConfig ==
    [STSSeconds |-> 63072000,
     FrameDeny |-> TRUE,
     ContentSecurityPolicy |-> "default-src 'none'; frame-ancestors 'none'",
     ContentTypeNosniff |-> TRUE]

\* variant: the frame-deny and nosniff options are left at their zero value
FixedHeaders_stsAndCspOnly(config) ==
    (IF config.ContentSecurityPolicy # ""
     THEN {<<"Content-Security-Policy", config.ContentSecurityPolicy>>}
     ELSE {})
    \cup (IF config.STSSeconds # 0
          THEN {<<"Strict-Transport-Security",
                  "max-age=" \o ToString(config.STSSeconds)>>}
          ELSE {})

\* the headers gin-contrib/secure derives from a Config: one per option
\* that is set, the HSTS value formatted as "max-age=%d"
FixedHeaders(config) ==
    (IF config.FrameDeny THEN {<<"X-Frame-Options", "DENY">>} ELSE {})
    \cup (IF config.ContentTypeNosniff
          THEN {<<"X-Content-Type-Options", "nosniff">>} ELSE {})
    \cup (IF config.ContentSecurityPolicy # ""
          THEN {<<"Content-Security-Policy", config.ContentSecurityPolicy>>}
          ELSE {})
    \cup (IF config.STSSeconds # 0
          THEN {<<"Strict-Transport-Security",
                  "max-age=" \o ToString(config.STSSeconds)>>}
          ELSE {})

\* secure.New(secure.Config{...}): the stage writes the fixed headers into
\* the response's header map and passes the request on
SecureStage(ctx) ==
    [ctx EXCEPT !.secureHeaders = TRUE,
                !.headers = @ \cup FixedHeaders(SecureConfig)]

\* variant: the path is compared with the plain concatenation
CsrfExemptStage_concat(c, ctx) ==
    IF ctx.req.path = c.basePath \o sGraphql
    THEN [ctx EXCEPT !.skipCheck = TRUE]
    ELSE ctx

\* the closure installed by dynamicRoutes.Use(func(c *gin.Context) {...})
CsrfExemptStage(c, ctx) ==
    IF ctx.req.path = Join(c.basePath, sGraphql)
    THEN [ctx EXCEPT !.skipCheck = TRUE]
    ELSE ctx

\* variant: a failed validation sets the status and lets the chain go on
CsrfStage_noAbort(ctx) ==
    IF ctx.skipCheck THEN [ctx EXCEPT !.csrf = "skipped"]
    ELSE IF ctx.req.method \in SafeMethods THEN [ctx EXCEPT !.csrf = "issued"]
    ELSE IF ctx.req.csrfTokenValid THEN [ctx EXCEPT !.csrf = "validated"]
    ELSE [ctx EXCEPT !.csrf = "rejected", !.status = 403]

\* adapter.Wrap(csrfProtect): gorilla/csrf's handler
CsrfStage(ctx) ==
    IF ctx.skipCheck THEN [ctx EXCEPT !.csrf = "skipped"]
    ELSE IF ctx.req.method \in SafeMethods THEN [ctx EXCEPT !.csrf = "issued"]
    ELSE IF ctx.req.csrfTokenValid THEN [ctx EXCEPT !.csrf = "validated"]
    ELSE Abort([ctx EXCEPT !.csrf = "rejected"], "csrf", 403)

\* ------------------------------------------------------------------------
\* The tokens of gorilla/csrf. The session's real token travels in the
\* signed cookie; the token handed to the client is the real token masked
\* with a one-time pad. Tokens are sequences of bits of length TokenLength;
\* an absent cookie or token is the empty sequence.
\* ------------------------------------------------------------------------
RealTokens == [1..TokenLength -> {0, 1}]

\* xorToken(a, b): element-wise XOR over the shorter length
xorToken(a, b) ==
    LET n == IF Len(a) < Len(b) THEN Len(a) ELSE Len(b)
    IN  [i \in 1..n |-> (a[i] + b[i]) % 2]

\* mask(realToken, r) with the pad it drew: the pad, then pad XOR token
mask(realToken, otp) == otp \o xorToken(otp, realToken)

\* variant: the first half of the issued token is taken as the real token
unmask_noXor(tok) ==
    IF Len(tok) # 2 * TokenLength THEN <<>>
    ELSE SubSeq(tok, 1, TokenLength)

\* unmask(issued): nil unless the length is 2*tokenLength, else the XOR of
\* the two halves
unmask(tok) ==
    IF Len(tok) # 2 * TokenLength THEN <<>>
    ELSE xorToken(SubSeq(tok, TokenLength + 1, 2 * TokenLength),
                  SubSeq(tok, 1, TokenLength))

\* the real token of the request's session: the one in its cookie, or a
\* freshly generated one (sent back in a new cookie) when the request has
\* no usable cookie
sessionToken(cookie, fresh) ==
    IF Len(cookie) # TokenLength THEN fresh ELSE cookie

\* compareTokens(a, b)
compareTokens(a, b) == a = b

\* the verdict of the gate on the token a request carries
TokenValid(cookie, token, fresh) ==
    LET Verdict(e) == compareTokens(e[1], e[2])
    IN  Strict(Verdict, <<unmask(token), sessionToken(cookie, fresh)>>)

\* csrf.Token(c.Request) in the handler of GET /csrf-token: the masked
\* token the gate stored in the request context, with the session's cookie
IssuedToken(cookie, fresh, otp) ==
    LET Pair(real) == [cookie |-> real, token |-> mask(real, otp)]
    IN  Strict(Pair, sessionToken(cookie, fresh))

NoIssued == [cookie |-> <<>>, token |-> <<>>]

\* a request with its cookie and token; csrfTokenValid is what the gate's
\* comparison answers for them
CsrfRequest(method, path, auth, cookie, token, fresh) ==
    [method |-> method, path |-> path, authenticated |-> auth,
     csrfTokenValid |-> TokenValid(cookie, token, fresh),
     cookie |-> cookie, token |-> token]

\* authenticationMiddleware
AuthStage(ctx) ==
    IF ctx.req.authenticated THEN ctx ELSE Abort(ctx, "auth", 401)

\* what each route's own handler writes
HandlerBody(h) ==
    CASE h = "root"      -> "Kubetail Cluster API"
      [] h = "healthz"   -> "{\"status\":\"ok\"}"
      [] h = "csrfToken" -> "{\"value\":csrf.Token(c.Request)}"
      [] OTHER           -> h

Stages == {"recovery", "requestid", "logging", "gzip", "secure",
           "csrfExempt", "csrf", "auth"}

RunStage(c, s, ctx) ==
    LET ctx1 == [ctx EXCEPT !.trace = Append(@, s)]
    IN  CASE s = "secure"     -> SecureStage(ctx1)
          [] s = "csrfExempt" -> CsrfExemptStage(c, ctx1)
          [] s = "csrf"       -> CsrfStage(ctx1)
          [] s = "auth"       -> AuthStage(ctx1)
          [] s \in {"recovery", "requestid", "logging", "gzip"} -> ctx1
          [] OTHER            -> [ctx1 EXCEPT !.handlerRan = s, !.status = 200,
                                              !.sent = ctx1.headers,
                                              !.body = HandlerBody(s)]

\* c.Next(): run the remaining handlers unless one aborted
RECURSIVE RunChain(_, _, _)
RunChain(c, chain, ctx) ==
    LET Rest(a) ==
            IF a.chain = <<>> \/ a.ctx.aborted THEN a.ctx
            ELSE RunChain(c, Tail(a.chain), RunStage(c, Head(a.chain), a.ctx))
    IN  Strict(Rest, [chain |-> chain, ctx |-> ctx])

Matching(routes, method, path) ==
    {i \in 1..Len(routes) : routes[i].path = path /\ method \in routes[i].methods}

\* gin's trailing-slash recommendation: the path with the slash added or
\* removed is a route of this method
Tsr(routes, method, path) ==
    /\ path # <<Slash>>
    /\ \E other \in {Append(path, Slash)}
                    \cup (IF Len(path) > 1 /\ path[Len(path)] = Slash
                          THEN {SubSeq(path, 1, Len(path) - 1)} ELSE {}) :
          Matching(routes, method, other) # {}

\* handleHTTPRequest up to the choice of the handler chain: the matched
\* route's chain, a trailing-slash redirect, or the engine's handlers and 404
Dispatch(app, req) ==
    LET ctx == NewContext(req)
        Pick(m) ==
            IF m # {}
            THEN LET r == app.routes[CHOOSE i \in m : TRUE]
                 IN  [chain |-> r.chain,
                      ctx |-> [ctx EXCEPT !.route = r.handler,
                                          !.group = r.group],
                      status |-> 0]
            ELSE IF Tsr(app.routes, req.method, req.path)
            THEN [chain |-> <<>>,
                  ctx |-> [ctx EXCEPT !.route = "redirect"],
                  status |-> IF req.method = "GET" THEN 301 ELSE 307]
            ELSE [chain |-> app.Handlers,
                  ctx |-> [ctx EXCEPT !.route = "noRoute"],
                  status |-> 404]
    IN  Strict(Pick, Matching(app.routes, req.method, req.path))

\* the redirect or 404 is written once the chain has run
Respond(status, done) ==
    IF status = 0 THEN done
    ELSE [done EXCEPT !.status = status, !.sent = done.headers]

\* engine.ServeHTTP / handleHTTPRequest
Serve(c, app, req) ==
    LET Run(d) ==
            LET Finish(done) == Respond(d.status, done)
            IN  Strict(Finish, RunChain(c, d.chain, d.ctx))
    IN  Strict(Run, Dispatch(app, req))

\* ------------------------------------------------------------------------
\* State machine
\* ------------------------------------------------------------------------
Contexts == {"ctxA", "ctxB"}
Subsystems == {"cm", "grpcDispatcher", "graphqlServer"}

\* a worker that handles no request
IdleWorker == [phase |-> "idle", ctx |-> NoContext, chain |-> <<>>,
               status |-> 0]

Init ==
    /\ cfg = NilCfg
    /\ ret = [app |-> NilApp, err |-> Nil, returned |-> FALSE]
    /\ built = {}
    /\ collab = NoCollab
    /\ attached = 0
    /\ last = NoContext
    /\ pc = [c \in Calls |-> "idle"]
    /\ sdLog = [c \in Calls |-> <<>>]
    /\ sdCtx = [c \in Calls |-> Nil]
    /\ dispOut = [c \in Calls |-> "none"]
    /\ cmOut = [c \in Calls |-> "none"]
    /\ sdRet = [c \in Calls |-> "none"]
    /\ releases = [s \in Subsystems |-> 0]
    /\ cmCtx = [c \in Calls |-> Nil]
    /\ lifecycle = "Uninitialized"
    /\ sdEntries = 0
    /\ issued = NoIssued
    /\ inflight = [w \in Workers |-> IdleWorker]

shutdownVars == <<pc, sdLog, sdCtx, dispOut, cmOut, sdRet, releases, cmCtx,
                  sdEntries>>

\* NewApp(cfg), and its caller: the gateway runs when no error came back
NewApp ==
    /\ lifecycle = "Uninitialized"
    /\ \E c \in Configs, cmAns \in {"ok", "err"}, dAns \in {"ok", "panic"},
          fsAns \in {"ok", "err"} :
          \E r \in {NewAppResult(c, cmAns, dAns, fsAns)} :
              /\ cfg' = c
              /\ ret' = r.ret
              /\ built' = r.built
              /\ collab' = r.collab
              /\ lifecycle' = IF r.ret.returned /\ r.ret.err = Nil
                              THEN "Running" ELSE "Failed"
    /\ UNCHANGED <<attached, last, shutdownVars, issued, inflight>>

\* the route made by app.dynamicRoutes.Handle(method, path, mock)
MockRoute(g, ms, k) ==
    Route(ms, joinPaths(g.basePath, MockPaths[k]), g.Handlers, "mock",
          "dynamic")

\* a test attaches a mock handler through the retained app.dynamicRoutes
AttachHandler ==
    /\ ~ret.app.null
    /\ attached < MaxAttached
    /\ \E ms \in {{"GET"}, {"POST"}} :
          ret' = [ret EXCEPT !.app.routes =
                     Append(@, MockRoute(ret.app.dynamicRoutes, ms,
                                         attached + 1))]
    /\ attached' = attached + 1
    /\ UNCHANGED <<cfg, built, collab, last, lifecycle, shutdownVars, issued,
                   inflight>>

\* the engine serves one request
ServeHTTP ==
    /\ ~ret.app.null
    /\ \E req \in Requests(cfg.basePath) :
          last' = Serve(cfg, ret.app, req)
    /\ UNCHANGED <<cfg, ret, built, collab, attached, lifecycle, shutdownVars,
                   issued, inflight>>

\* the engine serves one request for a path of the root group
ServeRootRequest ==
    /\ ~ret.app.null
    /\ \E req \in RootRequests(cfg.basePath) :
          last' = Serve(cfg, ret.app, req)
    /\ UNCHANGED <<cfg, ret, built, collab, attached, lifecycle, shutdownVars,
                   issued, inflight>>

newAppVars == <<cfg, ret, built, collab, attached, last, issued, inflight>>

\* variant: the query server is released inside the dispatcher branch only
ShutdownBegin_graphqlInBranch(c) ==
    /\ ~ret.app.null
    /\ pc[c] = "idle"
    /\ \E ctx \in Contexts : sdCtx' = [sdCtx EXCEPT ![c] = ctx]
    /\ pc' = [pc EXCEPT ![c] = IF ret.app.grpcDispatcher # Nil
                                THEN "dispatcher" ELSE "cm"]
    /\ lifecycle' = "ShuttingDown"
    /\ sdEntries' = sdEntries + 1
    /\ UNCHANGED <<newAppVars, sdLog, dispOut, cmOut, sdRet, releases, cmCtx>>

\* App.Shutdown(ctx) is entered; `if a.grpcDispatcher != nil`
ShutdownBegin(c) ==
    /\ ~ret.app.null
    /\ pc[c] = "idle"
    /\ \E ctx \in Contexts : sdCtx' = [sdCtx EXCEPT ![c] = ctx]
    /\ pc' = [pc EXCEPT ![c] = IF ret.app.grpcDispatcher # Nil
                                THEN "dispatcher" ELSE "graphql"]
    /\ lifecycle' = "ShuttingDown"
    /\ sdEntries' = sdEntries + 1
    /\ UNCHANGED <<newAppVars, sdLog, dispOut, cmOut, sdRet, releases, cmCtx>>

\* a.grpcDispatcher.Shutdown(): the result is dropped
ShutdownDispatcher(c) ==
    /\ pc[c] = "dispatcher"
    /\ \E out \in {"nil", "dispErr"} : dispOut' = [dispOut EXCEPT ![c] = out]
    /\ releases' = [releases EXCEPT !["grpcDispatcher"] = @ + 1]
    /\ sdLog' = [sdLog EXCEPT ![c] = Append(@, "grpcDispatcher")]
    /\ pc' = [pc EXCEPT ![c] = "graphql"]
    /\ UNCHANGED <<newAppVars, sdCtx, cmOut, sdRet, cmCtx, lifecycle,
                   sdEntries>>

\* a.graphqlServer.Shutdown()
ShutdownGraphql(c) ==
    /\ pc[c] = "graphql"
    /\ releases' = [releases EXCEPT !["graphqlServer"] = @ + 1]
    /\ sdLog' = [sdLog EXCEPT ![c] = Append(@, "graphqlServer")]
    /\ pc' = [pc EXCEPT ![c] = "cm"]
    /\ UNCHANGED <<newAppVars, sdCtx, dispOut, cmOut, sdRet, cmCtx, lifecycle,
                   sdEntries>>

\* the context handed to a.cm.Shutdown
CmShutdownArg(ctx) == ctx

\* variant: a dispatcher error is returned instead
ShutdownReturn_dispatcherFirst(dispatcherErr, cmErr) ==
    IF dispatcherErr = "dispErr" THEN dispatcherErr ELSE cmErr

\* the value of `return a.cm.Shutdown(ctx)`, given what the dispatcher's
\* and the connection manager's Shutdown returned
ShutdownReturn(dispatcherErr, cmErr) == cmErr

\* return a.cm.Shutdown(ctx); a nil interface value makes the call panic
ShutdownCM(c) ==
    /\ pc[c] = "cm"
    /\ IF ret.app.cm = Nil
       THEN /\ pc' = [pc EXCEPT ![c] = "panicked"]
            /\ UNCHANGED <<sdLog, cmOut, sdRet, releases, cmCtx, lifecycle>>
       ELSE /\ \E out \in {"nil", "cmErr"} :
                  /\ cmOut' = [cmOut EXCEPT ![c] = out]
                  /\ sdRet' = [sdRet EXCEPT ![c] =
                                  ShutdownReturn(dispOut[c], out)]
            /\ releases' = [releases EXCEPT !["cm"] = @ + 1]
            /\ cmCtx' = [cmCtx EXCEPT ![c] = CmShutdownArg(sdCtx[c])]
            /\ sdLog' = [sdLog EXCEPT ![c] = Append(@, "cm")]
            /\ pc' = [pc EXCEPT ![c] = "done"]
            /\ lifecycle' = "Stopped"
    /\ UNCHANGED <<newAppVars, sdCtx, dispOut, sdEntries>>

Shutdown(c) ==
    \/ ShutdownBegin(c)
    \/ ShutdownDispatcher(c)
    \/ ShutdownGraphql(c)
    \/ ShutdownCM(c)

NextLifecycle ==
    \/ NewApp
    \/ \E c \in Calls : Shutdown(c)

NextRequests ==
    \/ NewApp
    \/ AttachHandler
    \/ ServeHTTP

\* ------------------------------------------------------------------------
\* A running gateway with CSRF enabled and one POST handler attached to the
\* dynamic group: the state from which the token round trip and the
\* concurrent handling of requests are explored.
\* ------------------------------------------------------------------------
ServingConfigs == {c \in Configs : c.csrfEnabled /\ ~c.accessLog}

InitServing ==
    /\ cfg \in ServingConfigs
    /\ \E r \in {NewAppResult(cfg, "ok", "ok", "ok")} :
          /\ ret = [r.ret EXCEPT !.app.routes =
                       Append(@, MockRoute(r.ret.app.dynamicRoutes,
                                           {"POST"}, 1))]
          /\ built = r.built
          /\ collab = r.collab
    /\ attached = 1
    /\ last = NoContext
    /\ pc = [c \in Calls |-> "idle"]
    /\ sdLog = [c \in Calls |-> <<>>]
    /\ sdCtx = [c \in Calls |-> Nil]
    /\ dispOut = [c \in Calls |-> "none"]
    /\ cmOut = [c \in Calls |-> "none"]
    /\ sdRet = [c \in Calls |-> "none"]
    /\ releases = [s \in Subsystems |-> 0]
    /\ cmCtx = [c \in Calls |-> Nil]
    /\ lifecycle = "Running"
    /\ sdEntries = 0
    /\ issued = NoIssued
    /\ inflight = [w \in Workers |-> IdleWorker]

\* the path GET /csrf-token is mounted at when it is registered
CsrfTokenPath(bp) ==
    joinPaths(joinPaths(joinPaths(<<Slash>>, bp), <<Slash>>), sCsrfToken)

\* the path a handler attached at MockPaths[1] is mounted at
MockPath(bp) ==
    joinPaths(joinPaths(joinPaths(<<Slash>>, bp), <<Slash>>), MockPaths[1])

\* the path the /graphql route is mounted at
GraphqlPath(bp) ==
    joinPaths(joinPaths(joinPaths(<<Slash>>, bp), <<Slash>>), sGraphql)

\* a token that was issued for the all-zero session with the all-zero pad
StaleToken == [i \in 1..(2 * TokenLength) |-> 0]

\* a client reads a token: GET /csrf-token, with the cookie it holds or
\* none; the gate draws a real token when there is no cookie, and a pad
FetchCsrfToken ==
    /\ ~ret.app.null
    /\ \E auth \in BOOLEAN, cookie \in {<<>>, issued.cookie} :
       \E fresh \in (IF Len(cookie) = TokenLength THEN {cookie}
                      ELSE RealTokens) :
       \E ctx \in {Serve(cfg, ret.app,
                          CsrfRequest("GET", CsrfTokenPath(cfg.basePath),
                                      auth, cookie, <<>>, fresh))} :
       \E otp \in RealTokens :
          /\ last' = ctx
          /\ issued' = IF ctx.handlerRan = "csrfToken"
                        THEN IssuedToken(cookie, fresh, otp)
                        ELSE issued
    /\ UNCHANGED <<cfg, ret, built, collab, attached, lifecycle, shutdownVars,
                   inflight>>

\* the client sends a POST to a route of the dynamic group, with or without
\* the cookie it holds, and with the token it read, no token, or a token of
\* another session
SubmitWithToken ==
    /\ ~ret.app.null
    /\ \E path \in {MockPath(cfg.basePath), GraphqlPath(cfg.basePath)},
          auth \in BOOLEAN,
          cookie \in {<<>>, issued.cookie},
          token \in {<<>>, issued.token, StaleToken} :
       \E fresh \in (IF Len(cookie) = TokenLength THEN {cookie}
                      ELSE RealTokens) :
          last' = Serve(cfg, ret.app,
                        CsrfRequest("POST", path, auth, cookie, token, fresh))
    /\ UNCHANGED <<cfg, ret, built, collab, attached, lifecycle, shutdownVars,
                   issued, inflight>>

NextCsrf ==
    \/ FetchCsrfToken
    \/ SubmitWithToken

\* requests handled side by side: authenticated POSTs, to the /graphql
\* route without a token and to the attached handler with or without one
ConcurrentRequests(bp) ==
    { [method |-> "POST", path |-> GraphqlPath(bp), authenticated |-> TRUE,
       csrfTokenValid |-> FALSE] }
    \cup [ method : {"POST"},
           path : {MockPath(bp)},
           authenticated : {TRUE},
           csrfTokenValid : BOOLEAN ]

\* a worker takes a request: gin gives it a context of its own and picks
\* the handler chain
BeginRequest(w) ==
    /\ ~ret.app.null
    /\ inflight[w].phase = "idle"
    /\ \E req \in ConcurrentRequests(cfg.basePath) :
       \E d \in {Dispatch(ret.app, req)} :
          inflight' = [inflight EXCEPT ![w] =
                          [phase |-> "running", ctx |-> d.ctx,
                           chain |-> d.chain, status |-> d.status]]
    /\ UNCHANGED <<cfg, ret, built, collab, attached, last, lifecycle,
                   shutdownVars, issued>>

\* variant: the exempt mark is kept in a place all workers share
StepStage_sharedMark(w) ==
    /\ inflight[w].phase = "running"
    /\ inflight[w].chain # <<>>
    /\ ~inflight[w].ctx.aborted
    /\ \E ctx \in {RunStage(cfg, Head(inflight[w].chain), inflight[w].ctx)} :
          inflight' = [v \in Workers |->
                          IF v = w
                          THEN [inflight[w] EXCEPT !.ctx = ctx, !.chain = Tail(@)]
                          ELSE [inflight[v] EXCEPT !.ctx.skipCheck =
                                                      @ \/ ctx.skipCheck]]
    /\ UNCHANGED <<cfg, ret, built, collab, attached, last, lifecycle,
                   shutdownVars, issued>>

\* the worker runs the next handler of its chain on its own context
StepStage(w) ==
    /\ inflight[w].phase = "running"
    /\ inflight[w].chain # <<>>
    /\ ~inflight[w].ctx.aborted
    /\ \E ctx \in {RunStage(cfg, Head(inflight[w].chain), inflight[w].ctx)} :
          inflight' = [inflight EXCEPT ![w].ctx = ctx, ![w].chain = Tail(@)]
    /\ UNCHANGED <<cfg, ret, built, collab, attached, last, lifecycle,
                   shutdownVars, issued>>

\* the chain ended or a handler aborted: the response is complete
FinishRequest(w) ==
    /\ inflight[w].phase = "running"
    /\ inflight[w].chain = <<>> \/ inflight[w].ctx.aborted
    /\ inflight' = [inflight EXCEPT
                       ![w].phase = "done",
                       ![w].ctx = Respond(inflight[w].status, @)]
    /\ UNCHANGED <<cfg, ret, built, collab, attached, last, lifecycle,
                   shutdownVars, issued>>

Worker(w) ==
    \/ BeginRequest(w)
    \/ StepStage(w)
    \/ FinishRequest(w)

NextConcurrent == \E w \in Workers : Worker(w)

NextStatic ==
    \/ NewApp
    \/ ServeRootRequest

Next ==
    \/ NewApp
    \/ AttachHandler
    \/ ServeHTTP
    \/ ServeRootRequest
    \/ FetchCsrfToken
    \/ SubmitWithToken
    \/ \E w \in Workers : Worker(w)
    \/ \E c \in Calls : Shutdown(c)

\* The whole gateway. Serving a request reads cfg and ret only and writes
\* last only; Shutdown reads ret only and writes the shutdown variables.
\* The properties of each half are therefore checked under the
\* specification of that half (SpecLifecycle, SpecRequests), whose state
\* spaces are the two factors of this one.
Spec == Init /\ [][Next]_vars

\* The exemption closure on its own: a configuration and a request are
\* drawn, and the one action applies the closure to the request.
InitExempt ==
    /\ cfg \in Configs
    /\ \E req \in Requests(cfg.basePath) : last = NewContext(req)
    /\ ret = [app |-> NilApp, err |-> Nil, returned |-> FALSE]
    /\ built = {}
    /\ collab = NoCollab
    /\ attached = 0
    /\ pc = [c \in Calls |-> "idle"]
    /\ sdLog = [c \in Calls |-> <<>>]
    /\ sdCtx = [c \in Calls |-> Nil]
    /\ dispOut = [c \in Calls |-> "none"]
    /\ cmOut = [c \in Calls |-> "none"]
    /\ sdRet = [c \in Calls |-> "none"]
    /\ releases = [s \in Subsystems |-> 0]
    /\ cmCtx = [c \in Calls |-> Nil]
    /\ lifecycle = "Uninitialized"
    /\ sdEntries = 0
    /\ issued = NoIssued
    /\ inflight = [w \in Workers |-> IdleWorker]

ApplyExemption ==
    /\ last.trace = <<>>
    /\ last' = RunStage(cfg, "csrfExempt", last)
    /\ UNCHANGED <<cfg, ret, built, collab, attached, lifecycle, shutdownVars,
                   issued, inflight>>

SpecExempt == InitExempt /\ [][ApplyExemption]_vars

\* construction and shutdown only
SpecLifecycle == Init /\ [][NextLifecycle]_vars

\* construction and request serving only
SpecRequests == Init /\ [][NextRequests]_vars

\* construction and the serving of the root group's routes
SpecStatic == Init /\ [][NextStatic]_vars

\* a client reading and submitting CSRF tokens against a running gateway
SpecCsrf == InitServing /\ [][NextCsrf]_vars

\* workers handling requests side by side on a running gateway, one
\* handler at a time
SpecConcurrent == InitServing /\ [][NextConcurrent]_vars

\* ------------------------------------------------------------------------
\* Properties of App.Shutdown (checked under SpecLifecycle)
\* ------------------------------------------------------------------------
Range(seq) == {seq[i] : i \in 1..Len(seq)}

Rank(s) ==
    CASE s = "grpcDispatcher" -> 1
      [] s = "graphqlServer"  -> 2
      [] s = "cm"             -> 3

\* C1: on a Live gateway a finished Shutdown has attempted the connection
\* manager's release and returns exactly what that release returned; a
\* dispatcher error neither stops the sequence nor is returned.
C1_ShutdownReturnsCmError ==
    \A c \in Calls :
        /\ pc[c] = "done" =>
              /\ cmOut[c] # "none"
              /\ "cm" \in Range(sdLog[c])
              /\ sdRet[c] = cmOut[c]
        /\ dispOut[c] = "dispErr" =>
              /\ pc[c] \in {"graphql", "cm", "done"}
              /\ sdRet[c] # "dispErr"
        /\ sdRet[c] # "none" => pc[c] = "done"

\* C1 witness: the dispatcher release failed, the connection manager's
\* succeeded, and Shutdown returned nil
C1_Witness ==
    \E c \in Calls :
        /\ pc[c] = "done"
        /\ dispOut[c] = "dispErr"
        /\ cmOut[c] = "nil"
        /\ sdRet[c] = "nil"

\* C2: within one Shutdown call the releases are performed in the order
\* dispatcher, query server, connection manager; the dispatcher release is
\* performed only when a dispatcher exists, the query-server release in
\* every run that got past the dispatcher step, and the connection manager
\* receives the context that was passed to Shutdown.
C2_ReleaseOrder ==
    \A c \in Calls :
        LET log == sdLog[c]
        IN  /\ \A i, j \in 1..Len(log) : i < j => Rank(log[i]) < Rank(log[j])
            /\ "grpcDispatcher" \in Range(log) => ret.app.grpcDispatcher # Nil
            /\ (ret.app.grpcDispatcher # Nil /\ "graphqlServer" \in Range(log))
                  => "grpcDispatcher" \in Range(log)
            /\ pc[c] \in {"cm", "done", "panicked"}
                  => "graphqlServer" \in Range(log)
            /\ "cm" \in Range(log)
                  => /\ "graphqlServer" \in Range(log)
                     /\ cmCtx[c] = sdCtx[c]

\* C2 witness: a finished call on a Live gateway released all three, the
\* connection manager with the call's context
C2_Witness ==
    \E c \in Calls :
        /\ pc[c] = "done"
        /\ sdLog[c] = <<"grpcDispatcher", "graphqlServer", "cm">>
        /\ sdCtx[c] = "ctxB"
        /\ cmCtx[c] = "ctxB"

\* C8: the ShuttingDown state is entered at most once and no subsystem is
\* released more than once, whatever the number of Shutdown calls.
C8_SingleFlight ==
    /\ sdEntries <= 1
    /\ \A s \in Subsystems : releases[s] <= 1

\* ------------------------------------------------------------------------
\* Properties of NewApp (checked under SpecLifecycle)
\* ------------------------------------------------------------------------
AllHandlesSet(app) ==
    /\ app.cm # Nil
    /\ app.grpcDispatcher # Nil
    /\ app.graphqlServer # Nil

\* C9 as stated: after NewApp returns, in Live mode construction failed or
\* all three handles are non-null, and in Test mode all three handles of
\* the returned gateway are null.
C9_AsStated ==
    ret.returned =>
        /\ cfg.mode = LiveMode =>
              \/ ret.app.null /\ ret.err # Nil
              \/ AllHandlesSet(ret.app)
        /\ (cfg.mode = TestMode /\ ~ret.app.null) =>
              /\ ret.app.cm = Nil
              /\ ret.app.grpcDispatcher = Nil
              /\ ret.app.graphqlServer = Nil

\* C9 amended: after NewApp returns, in Live mode construction failed or
\* all three handles are non-null; in Test mode the connection manager and
\* the dispatcher are null while the query server is non-null, constructed
\* from the null connection manager and dispatcher and mounted at /graphql.
C9_HandlesMatchMode ==
    ret.returned =>
        /\ cfg.mode = LiveMode =>
              \/ ret.app.null /\ ret.err # Nil
              \/ AllHandlesSet(ret.app)
        /\ (cfg.mode = TestMode /\ ~ret.app.null) =>
              /\ ret.app.cm = Nil
              /\ ret.app.grpcDispatcher = Nil
              /\ ret.app.graphqlServer # Nil
              /\ ret.app.gqlArgs.cm = Nil
              /\ ret.app.gqlArgs.dispatcher = Nil
              /\ \E i \in 1..Len(ret.app.routes) :
                    ret.app.routes[i].handler = "graphql"

\* C9 witness: NewApp returned a gateway in Test mode
C9_Witness ==
    /\ ret.returned
    /\ cfg.mode = TestMode
    /\ ~ret.app.null
    /\ ret.app.graphqlServer # Nil

\* C10: NewApp returns a gateway and no error, or no gateway and an error;
\* a failed connection-manager construction or static-asset mount gives the
\* error outcome, and the gateway runs only after the success outcome.
C10_AllOrNothing ==
    /\ ret.returned =>
          \/ ~ret.app.null /\ ret.err = Nil
          \/ ret.app.null /\ ret.err # Nil
    /\ (collab.cm = "err" \/ collab.fs = "err") =>
          /\ ret.returned
          /\ ret.app.null
          /\ ret.err # Nil
    /\ lifecycle \in {"Running", "ShuttingDown", "Stopped"} =>
          /\ ~ret.app.null
          /\ ret.err = Nil
          /\ collab.cm # "err"
          /\ collab.fs = "ok"

\* C10 witness: the static-asset mount failed in Live mode after the
\* subsystems were constructed, and NewApp returned the error only
C10_Witness ==
    /\ ret.returned
    /\ cfg.mode = LiveMode
    /\ collab.fs = "err"
    /\ built = Subsystems
    /\ ret.app.null
    /\ ret.err = "fsErr"

\* ------------------------------------------------------------------------
\* Properties of request handling (checked under SpecRequests)
\* ------------------------------------------------------------------------
IndexOf(seq, x) == CHOOSE i \in 1..Len(seq) : seq[i] = x

\* C3: an unauthenticated request routed to a dynamic route other than
\* /graphql is answered 401 and the route's handler is not invoked.
C3_UnauthenticatedRejected ==
    (last.group = "dynamic" /\ last.route # "graphql"
        /\ ~last.req.authenticated)
    => /\ last.status = 401
       /\ last.handlerRan = Nil

\* C4: the /graphql handler runs only for a request with a verified session;
\* an unverified request to /graphql never reaches the handler, and when it
\* is exempt from the CSRF check (or CSRF is disabled) it is the
\* authentication gate that aborts it, for every method.
C4_GraphqlNeedsSession ==
    /\ last.handlerRan = "graphql" => last.req.authenticated
    /\ (last.route = "graphql" /\ ~last.req.authenticated) =>
          /\ last.handlerRan = Nil
          /\ last.aborted
          /\ (last.skipCheck \/ ~cfg.csrfEnabled) =>
                /\ last.abortedBy = "auth"
                /\ last.status = 401

\* C4 witness: with CSRF enabled, an unauthenticated POST without a token
\* to /graphql skipped the CSRF check and was aborted by the auth gate
C4_Witness ==
    /\ cfg.csrfEnabled
    /\ last.route = "graphql"
    /\ last.req.method = "POST"
    /\ ~last.req.authenticated
    /\ ~last.req.csrfTokenValid
    /\ last.csrf = "skipped"
    /\ last.abortedBy = "auth"

C7_FullPipeline ==
    (last.group = "dynamic" /\ last.handlerRan # Nil) =>
        last.trace =
            <<"recovery", "requestid">>
            \o (IF cfg.accessLog THEN <<"logging">> ELSE <<>>)
            \o <<"gzip", "secure", "csrfExempt">>
            \o (IF cfg.csrfEnabled THEN <<"csrf">> ELSE <<>>)
            \o <<"auth", last.handlerRan>>

\* ------------------------------------------------------------------------
\* Properties of the exemption check (checked under SpecExempt)
\* ------------------------------------------------------------------------
ExemptionApplied == last.trace = <<"csrfExempt">>

\* C6 as stated: the check answers exempt iff the request path is the
\* concatenation basePath + "/graphql", and path.Join yields that string.
C6_AsStated ==
    ExemptionApplied =>
        /\ last.skipCheck <=> (last.req.path = cfg.basePath \o sGraphql)
        /\ Join(cfg.basePath, sGraphql) = cfg.basePath \o sGraphql

\* a base path that path.Clean leaves alone and that is not "/": no
\* trailing slash, no repeated slash, no "." or ".." element
Canonical(bp) ==
    \/ bp = <<>>
    \/ /\ bp # <<Slash>>
       /\ bp[Len(bp)] # Slash
       /\ \A i \in 1..(Len(bp) - 1) : ~(bp[i] = Slash /\ bp[i + 1] = Slash)
       /\ \A i \in 1..Len(bp) : bp[i] # "."

\* the exempt path of each configured base path, written out
ExemptPathOf(bp) ==
    CASE bp = <<>>                -> <<"/", "g", "r", "a", "p", "h", "q", "l">>
      [] bp = <<"/">>             -> <<"/", "g", "r", "a", "p", "h", "q", "l">>
      [] bp = <<"/", "a">>        ->
            <<"/", "a", "/", "g", "r", "a", "p", "h", "q", "l">>
      [] bp = <<"/", "a", "/">>   ->
            <<"/", "a", "/", "g", "r", "a", "p", "h", "q", "l">>
      [] bp = <<"/", "/", "a">>   ->
            <<"/", "a", "/", "g", "r", "a", "p", "h", "q", "l">>
      [] bp = <<"a">>             ->
            <<"a", "/", "g", "r", "a", "p", "h", "q", "l">>

\* C6 amended: the check answers exempt iff the request path equals
\* path.Join(basePath, "/graphql"), the cleaned join: that is
\* basePath + "/graphql" when basePath is empty or has no trailing or
\* repeated slash, and "/graphql", "/a/graphql", "/a/graphql" for the base
\* paths "/", "/a/", "//a". The request path is compared as it is: no
\* sibling, trailing-slash or doubled-slash variant of it is exempt.
C6_ExemptIffCleanJoin ==
    ExemptionApplied =>
        /\ last.skipCheck <=> (last.req.path = ExemptPathOf(cfg.basePath))
        /\ Canonical(cfg.basePath) =>
              (last.skipCheck <=> (last.req.path = cfg.basePath \o sGraphql))
        /\ last.skipCheck =>
              /\ last.req.path[Len(last.req.path)] # Slash
              /\ \A i \in 1..(Len(last.req.path) - 1) :
                    ~(last.req.path[i] = Slash /\ last.req.path[i + 1] = Slash)
              /\ SubSeq(last.req.path, Len(last.req.path) - 7,
                        Len(last.req.path)) = sGraphql

\* C6 witness: with base path "/" the request path "/graphql" is exempt,
\* which is not the concatenation "//graphql"
C6_Witness ==
    /\ ExemptionApplied
    /\ cfg.basePath = <<"/">>
    /\ last.req.path = sGraphql
    /\ last.skipCheck

\* ------------------------------------------------------------------------
\* Properties of the security-header stage (checked under SpecRequests)
\* ------------------------------------------------------------------------
\* C11: every response to a request routed into the dynamic group went out
\* with Strict-Transport-Security max-age=63072000, X-Frame-Options DENY,
\* Content-Security-Policy "default-src 'none'; frame-ancestors 'none'" and
\* X-Content-Type-Options nosniff; the stage that sets them ran before the
\* CSRF gate and the authentication gate, so the 403 and 401 aborts carry
\* them too.
C11_SecurityHeadersSent ==
    last.group = "dynamic" =>
        /\ last.status # 0
        /\ { <<"Strict-Transport-Security", "max-age=63072000">>,
              <<"X-Frame-Options", "DENY">>,
              <<"Content-Security-Policy",
                "default-src 'none'; frame-ancestors 'none'">>,
              <<"X-Content-Type-Options", "nosniff">> } \subseteq last.sent
        /\ "secure" \in Range(last.trace)
        /\ \A s \in {"csrf", "auth"} :
              s \in Range(last.trace) =>
                  IndexOf(last.trace, "secure") < IndexOf(last.trace, s)
        /\ last.abortedBy \in {"csrf", "auth"} =>
              last.status = (IF last.abortedBy = "csrf" THEN 403 ELSE 401)

\* C11 witness: the CSRF gate answered 403 to a request of the dynamic
\* group, and the response went out with the four headers
C11_Witness ==
    /\ last.group = "dynamic"
    /\ last.abortedBy = "csrf"
    /\ last.status = 403
    /\ Cardinality(last.sent) = 4
    /\ <<"X-Frame-Options", "DENY">> \in last.sent

\* ------------------------------------------------------------------------
\* Properties of the CSRF gate (checked under SpecRequests)
\* ------------------------------------------------------------------------
\* C12: with CSRF enabled, a request routed into the dynamic group that is
\* not exempt, has a state-changing method and carries no valid token is
\* answered 403 by the CSRF gate, which is the last stage that runs: the
\* authentication gate and the handler are not invoked, so the answer is
\* 403 and not 401 also when the request is unauthenticated.
C12_CsrfFailureForbidden ==
    /\ (/\ cfg.csrfEnabled
        /\ last.group = "dynamic"
        /\ last.req.path # Join(cfg.basePath, sGraphql)
        /\ last.req.method \notin SafeMethods
        /\ ~last.req.csrfTokenValid)
       => /\ last.csrf = "rejected"
          /\ last.aborted
          /\ last.abortedBy = "csrf"
          /\ last.status = 403
          /\ last.trace[Len(last.trace)] = "csrf"
          /\ "auth" \notin Range(last.trace)
          /\ last.handlerRan = Nil
          /\ last.body = Nil
    /\ last.csrf = "rejected" =>
          /\ last.status = 403
          /\ last.handlerRan = Nil

\* C12 witness: an unauthenticated POST without a valid token to a handler
\* attached to the dynamic group was answered 403 by the CSRF gate
C12_Witness ==
    /\ cfg.csrfEnabled
    /\ last.route = "mock"
    /\ last.req.method = "POST"
    /\ ~last.req.authenticated
    /\ ~last.req.csrfTokenValid
    /\ last.abortedBy = "csrf"
    /\ last.status = 403

\* ------------------------------------------------------------------------
\* Properties of the routes outside the dynamic group (SpecRequests)
\* ------------------------------------------------------------------------
\* the path the healthz route is mounted at
HealthzPath(bp) == joinPaths(joinPaths(<<Slash>>, bp), sHealthz)

\* C13: a GET of the healthz route is answered 200 with the body
\* {"status":"ok"} whatever the request's session and token, the CSRF
\* setting and the mode; no stage aborts it, and neither the CSRF gate nor
\* the authentication gate is in its chain. For a base path without
\* trailing or repeated slash the route is basePath + "/healthz".
C13_HealthzAlwaysOk ==
    /\ (/\ last.req.method = "GET"
        /\ last.req.path = HealthzPath(cfg.basePath))
       => /\ last.route = "healthz"
          /\ last.group = "root"
          /\ last.status = 200
          /\ last.body = "{\"status\":\"ok\"}"
          /\ last.handlerRan = "healthz"
          /\ ~last.aborted
          /\ Range(last.trace) \cap {"csrfExempt", "csrf", "auth"} = {}
    /\ (Canonical(cfg.basePath)
           /\ (cfg.basePath = <<>> \/ cfg.basePath[1] = Slash)) =>
          HealthzPath(cfg.basePath) = cfg.basePath \o sHealthz

\* C13 witness: with CSRF enabled in Live mode, an unauthenticated GET of
\* healthz without a token was answered 200
C13_Witness ==
    /\ cfg.csrfEnabled
    /\ cfg.mode = LiveMode
    /\ last.route = "healthz"
    /\ ~last.req.authenticated
    /\ ~last.req.csrfTokenValid
    /\ last.status = 200
    /\ last.body = "{\"status\":\"ok\"}"

\* ------------------------------------------------------------------------
\* Runtime mode and the retained dynamic group (checked under SpecRequests)
\* ------------------------------------------------------------------------
\* a request that the gates of the dynamic group let through
PassesGates(c, req) ==
    /\ req.authenticated
    /\ \/ ~c.csrfEnabled
       \/ req.method \in SafeMethods
       \/ req.csrfTokenValid

C14_ModeState ==
    /\ cfg.mode = TestMode =>
          /\ built \cap {"cm", "grpcDispatcher"} = {}
          /\ collab.cm = "none"
          /\ collab.dispatcher = "none"
          /\ "recovery" \notin Range(ret.app.Handlers)
          /\ \A i \in 1..Len(ret.app.routes) :
                "recovery" \notin Range(ret.app.routes[i].chain)
          /\ "recovery" \notin Range(last.trace)
    /\ (cfg.mode = LiveMode /\ ~ret.app.null) =>
          /\ ret.app.Handlers[1] = "recovery"
          /\ ret.app.dynamicRoutes.Handlers[1] = "recovery"
          /\ \A i \in 1..Len(ret.app.routes) :
                ret.app.routes[i].chain[1] = "recovery"
          /\ last.trace # <<>> => last.trace[1] = "recovery"
    /\ (ret.returned /\ ret.err = Nil) =>
          /\ ~ret.app.null
          /\ ret.app.dynamicRoutes # NilGroup
          /\ ret.app.dynamicRoutes.Handlers # <<>>
    /\ last.route = "mock" =>
          /\ attached >= 1
          /\ last.group = "dynamic"
          /\ PassesGates(cfg, last.req) =>
                (last.handlerRan = "mock" /\ last.status = 200)

\* a request served after the attachment that names the path and method
\* of an attached handler is routed to it
C14_AttachedServed ==
    (attached >= 1 /\ attached' = attached /\ last' # last) =>
        \A i \in 1..Len(ret.app.routes) :
            (/\ ret.app.routes[i].handler = "mock"
             /\ last'.req.path = ret.app.routes[i].path
             /\ last'.req.method \in ret.app.routes[i].methods)
            => /\ last'.route = "mock"
               /\ PassesGates(cfg, last'.req) => last'.handlerRan = "mock"

\* C14: in Test mode NewApp constructs neither the connection manager nor
\* the dispatcher (their constructors are not called) and no chain holds
\* the recovery stage; in Live mode recovery is the first stage of the
\* engine, of the dynamic group and of every route; a gateway returned
\* without error has a non-null dynamic group, and a request for a handler
\* attached through that group after construction is routed to it and,
\* when the gates let it through, served by it.
C14_ModeAndDynamicHandle ==
    []C14_ModeState /\ [][C14_AttachedServed]_vars

\* C14 witness: in Test mode, with only the query server constructed, a
\* request was served by a handler attached after construction
C14_Witness ==
    /\ cfg.mode = TestMode
    /\ built = {"graphqlServer"}
    /\ attached = 1
    /\ last.route = "mock"
    /\ last.handlerRan = "mock"
    /\ last.status = 200

\* ------------------------------------------------------------------------
\* CSRF enabled or disabled (checked under SpecRequests)
\* ------------------------------------------------------------------------
\* C15: on a constructed gateway the CSRF gate is a stage of the dynamic
\* group, and GET csrf-token is a route, iff csrfEnabled. Disabled: no
\* request passes through a CSRF check or is rejected by one, a request
\* for the csrf-token path finds no route, and the query server was
\* constructed with a nil validator. Enabled: the query server was
\* constructed with the csrfProtect function that the gate wraps.
C15_CsrfInstalledIffEnabled ==
    /\ ~ret.app.null =>
          /\ "csrf" \in Range(ret.app.dynamicRoutes.Handlers)
                <=> cfg.csrfEnabled
          /\ (\E i \in 1..Len(ret.app.routes) :
                  ret.app.routes[i].handler = "csrfToken")
                <=> cfg.csrfEnabled
          /\ \A i \in 1..Len(ret.app.routes) :
                /\ ret.app.routes[i].group = "dynamic" =>
                      ("csrf" \in Range(ret.app.routes[i].chain)
                          <=> cfg.csrfEnabled)
                /\ ret.app.routes[i].handler = "csrfToken" =>
                      /\ ret.app.routes[i].methods = {"GET"}
                      /\ ret.app.routes[i].path = CsrfTokenPath(cfg.basePath)
          /\ ret.app.gqlArgs.csrfProtect =
                (IF cfg.csrfEnabled THEN "csrfProtect" ELSE Nil)
    /\ ~cfg.csrfEnabled =>
          /\ last.csrf = Nil
          /\ "csrf" \notin Range(last.trace)
          /\ last.abortedBy # "csrf"
          /\ last.status # 403
          /\ last.route # "csrfToken"
          /\ last.req.path = CsrfTokenPath(cfg.basePath) =>
                (last.route = "noRoute" /\ last.status = 404)
    /\ last.route = "csrfToken" =>
          /\ cfg.csrfEnabled
          /\ last.csrf = "issued"

\* C15 witness: with CSRF disabled, a POST without a token reached the
\* handler it was sent to, and the query server holds a nil validator
C15_Witness ==
    /\ ~ret.app.null
    /\ ~cfg.csrfEnabled
    /\ ret.app.gqlArgs.csrfProtect = Nil
    /\ last.req.method = "POST"
    /\ ~last.req.csrfTokenValid
    /\ last.group = "dynamic"
    /\ last.handlerRan # Nil

\* ------------------------------------------------------------------------
\* Properties of the root group's routes (checked under SpecStatic)
\* ------------------------------------------------------------------------
\* the routes mounted on the root group
RootHandlers == {"root", "healthz", "graphiql", "faviconIco", "faviconSvg"}

\* C20: the routes root, healthz, graphiql, favicon.ico and favicon.svg are
\* mounted outside the dynamic group, and a request routed to one of them
\* passes through recovery (Live mode only), request-id, access logging
\* (when enabled) and compression, then the route's handler, and through
\* nothing else: no security headers are set, and the exemption check, the
\* CSRF gate and the authentication gate do not run.
C20_RootRoutesGlobalStagesOnly ==
    /\ (ret.returned /\ ret.err = Nil) =>
          /\ { ret.app.routes[i].handler :
                  i \in {j \in 1..Len(ret.app.routes) :
                            ret.app.routes[j].group = "root"} } = RootHandlers
          /\ \A i \in 1..Len(ret.app.routes) :
                ret.app.routes[i].handler \in RootHandlers =>
                    /\ ret.app.routes[i].group = "root"
                    /\ Range(ret.app.routes[i].chain)
                          \cap {"secure", "csrfExempt", "csrf", "auth"} = {}
    /\ last.route \in RootHandlers =>
          /\ last.group = "root"
          /\ last.trace =
                (IF cfg.mode = LiveMode THEN <<"recovery">> ELSE <<>>)
                \o <<"requestid">>
                \o (IF cfg.accessLog THEN <<"logging">> ELSE <<>>)
                \o <<"gzip", last.route>>
          /\ ~last.secureHeaders
          /\ last.sent = {}
          /\ last.csrf = Nil
          /\ ~last.skipCheck
          /\ ~last.aborted
          /\ last.handlerRan = last.route

\* C20 witness: with CSRF enabled, an unauthenticated request to
\* favicon.svg was served by the static handler without security headers
C20_Witness ==
    /\ cfg.csrfEnabled
    /\ last.route = "faviconSvg"
    /\ ~last.req.authenticated
    /\ last.handlerRan = "faviconSvg"
    /\ last.sent = {}

\* ------------------------------------------------------------------------
\* Null handles and failed construction (checked under SpecLifecycle)
\* ------------------------------------------------------------------------
\* C18: Shutdown invokes the release of a subsystem only when its handle is
\* non-null, and never faults: on a gateway constructed in Test mode it
\* skips the dispatcher and the connection manager and returns.
C18_NullSafeShutdown ==
    \A c \in Calls :
        /\ pc[c] # "panicked"
        /\ "grpcDispatcher" \in Range(sdLog[c]) => ret.app.grpcDispatcher # Nil
        /\ "cm" \in Range(sdLog[c]) => ret.app.cm # Nil

\* C19: once NewApp has failed (returned an error, or did not return),
\* every subsystem it had constructed has been released.
C19_ReleasedOnFailure ==
    lifecycle = "Failed" => \A s \in built : releases[s] >= 1

\* ------------------------------------------------------------------------
\* The token round trip (checked under SpecCsrf)
\* ------------------------------------------------------------------------
\* the last request was a state-changing one to a route of the dynamic
\* group whose path is not the exempt one
NonExemptPost ==
    /\ last.group = "dynamic"
    /\ last.req.method \notin SafeMethods
    /\ last.req.path # Join(cfg.basePath, sGraphql)

\* C16: with CSRF enabled, GET csrf-token is never stopped by the CSRF gate
\* and hands out a token with the session cookie; a following state-changing
\* request to a non-exempt route of the dynamic group that carries that
\* token and that cookie passes the validation, and one that carries no
\* token is rejected with 403.
C16_TokenRoundTrip ==
    last.route # Nil =>
        /\ last.route = "csrfToken" =>
              /\ last.csrf = "issued"
              /\ ~last.aborted
              /\ last.status = 200
              /\ Len(issued.cookie) = TokenLength
              /\ Len(issued.token) = 2 * TokenLength
        /\ (/\ NonExemptPost
            /\ issued # NoIssued
            /\ last.req.cookie = issued.cookie
            /\ last.req.token = issued.token)
           => /\ last.csrf = "validated"
              /\ last.abortedBy # "csrf"
              /\ last.status # 403
        /\ (NonExemptPost /\ last.req.token = <<>>)
           => /\ last.csrf = "rejected"
              /\ last.status = 403
              /\ last.handlerRan = Nil

\* C16 witness: a POST to the attached handler carrying the cookie and a
\* token that GET csrf-token issued under a non-zero pad was validated and
\* served
C16_Witness ==
    /\ last.route = "mock"
    /\ issued # NoIssued
    /\ last.req.cookie = issued.cookie
    /\ last.req.token = issued.token
    /\ issued.token[1] = 1
    /\ last.csrf = "validated"
    /\ last.handlerRan = "mock"

\* ------------------------------------------------------------------------
\* Requests handled side by side (checked under SpecConcurrent)
\* ------------------------------------------------------------------------
\* the gate has run for worker w's request
PastGate(w) == "csrf" \in Range(inflight[w].ctx.trace)

C17_MarkIsPerRequest ==
    \A w \in Workers :
        LET ctx == inflight[w].ctx
        IN  inflight[w].phase # "idle" =>
              /\ ctx.skipCheck =>
                    ctx.req.path = Join(cfg.basePath, sGraphql)
              /\ (PastGate(w)
                     /\ ctx.req.path # Join(cfg.basePath, sGraphql)) =>
                    /\ ctx.csrf = (IF ctx.req.csrfTokenValid
                                   THEN "validated" ELSE "rejected")
                    /\ ~ctx.req.csrfTokenValid =>
                          (ctx.aborted /\ ctx.handlerRan = Nil)

\* a step of one worker leaves the gateway and the other workers as they
\* were
C17_OwnStateOnly ==
    \A w \in Workers :
        inflight'[w] # inflight[w] =>
            /\ \A v \in Workers \ {w} : inflight'[v] = inflight[v]
            /\ UNCHANGED <<cfg, ret, built, collab, attached, lifecycle,
                           shutdownVars, issued>>

\* C17: a handler run for one request changes the context of that request
\* and nothing else: not the configuration, the subsystem handles or the
\* route table, and not the context of a request handled at the same
\* time. The exempt mark is set only on a request whose own path is the
\* exempt one, so a request to another path is validated by the gate even
\* while an exempt request is in flight.
C17_RequestStateIsolated ==
    []C17_MarkIsPerRequest /\ [][C17_OwnStateOnly]_vars

\* C17 witness: a /graphql request carries the exempt mark and is still in
\* flight while the gate has rejected a request to another path
C17_Witness ==
    \E w, v \in Workers :
        /\ inflight[w].phase = "running"
        /\ inflight[w].ctx.skipCheck
        /\ inflight[w].chain # <<>>
        /\ inflight[v].phase = "running"
        /\ inflight[v].ctx.route = "mock"
        /\ inflight[v].ctx.csrf = "rejected"
        /\ ~inflight[v].ctx.skipCheck

====
